---- MODULE Spec2Model ----
(***************************************************************************)
(* Specification pattern (specification/src/lib.rs): atomic rules, the     *)
(* SpecificationCompositions tree, its builder operations (and, or, xor,   *)
(* invert, composite), the evaluator is_satisfied_by, the explainer        *)
(* reminder_unsatisfied_by and the Display renderer.                       *)
(*                                                                         *)
(* A value is a record tagged by `kind`:                                   *)
(*   bare rules     [kind |-> "GreaterThan", value |-> 5]   (caller rule)  *)
(*   Specification  [kind |-> "Specification", f |-> v]     (Arc<dyn ..>)  *)
(*   And / Or / Xor [kind |-> K, specs |-> <<v1, ..., vn>>]                *)
(*   Invert         [kind |-> "Invert", spec |-> v]                        *)
(*   True / False   [kind |-> "True"], [kind |-> "False"]                  *)
(* Option<Self> is either None or the node itself.                         *)
(***************************************************************************)
EXTENDS Integers, Sequences, FiniteSets, TLC

VARIABLES reg, ops, last, log

vars == <<reg, ops, last, log>>

\* ---- bounds ----
MaxOps == 3

\* ---- the caller-supplied rules and candidates of the test module ----
GreaterThan(v) == [kind |-> "GreaterThan", value |-> v]
LessThan(v) == [kind |-> "LessThan", value |-> v]

greater_than_5 == GreaterThan(5)
less_than_10 == LessThan(10)

\* the rules and candidates of test_and and test_reminder_unsatisfied_by
Rules == {greater_than_5, less_than_10}
Candidates == {3, 6, 33}
Regs == {1, 2}

RuleKinds == {"GreaterThan", "LessThan"}
NaryKinds == {"And", "Or", "Xor"}

\* ---- enum SpecificationCompositions ----
Specification(f) == [kind |-> "Specification", f |-> f]
And(specifications) == [kind |-> "And", specs |-> specifications]
Or(specifications) == [kind |-> "Or", specs |-> specifications]
Xor(specifications) == [kind |-> "Xor", specs |-> specifications]
Invert(specification) == [kind |-> "Invert", spec |-> specification]
True == [kind |-> "True"]
False == [kind |-> "False"]
None == [kind |-> "None"]

IsRule(v) == v.kind \in RuleKinds
IsNode(v) == ~IsRule(v)

\* ---- impl Specification<i32> for GreaterThan / LessThan ----
rule_is_satisfied_by(r, candidate) ==
  CASE r.kind = "GreaterThan" -> candidate > r.value
    [] r.kind = "LessThan" -> candidate < r.value

\* ---- impl Specification<T> for SpecificationCompositions<T> ----
RECURSIVE is_satisfied_by(_, _)
RECURSIVE count_satisfied(_, _)

count_satisfied(specifications, candidate) ==
  IF specifications = <<>> THEN 0
  ELSE (IF is_satisfied_by(Head(specifications), candidate) THEN 1 ELSE 0)
       + count_satisfied(Tail(specifications), candidate)

is_satisfied_by(self, candidate) ==
  CASE IsRule(self) -> rule_is_satisfied_by(self, candidate)
    [] self.kind = "Specification" -> is_satisfied_by(self.f, candidate)
    [] self.kind = "And" ->
         \A i \in 1..Len(self.specs) : is_satisfied_by(self.specs[i], candidate)
    [] self.kind = "Or" ->
         \E i \in 1..Len(self.specs) : is_satisfied_by(self.specs[i], candidate)
    [] self.kind = "Invert" -> ~is_satisfied_by(self.spec, candidate)
    [] self.kind = "Xor" -> count_satisfied(self.specs, candidate) = 1
    [] self.kind = "True" -> TRUE
    [] self.kind = "False" -> FALSE

\* ---- trait Specification: default builder methods (receiver is a bare rule) ----
trait_and(self, other) == And(<<Specification(self), Specification(other)>>)
trait_or(self, other) == Or(<<Specification(self), Specification(other)>>)
trait_invert(self) == Invert(Specification(self))
trait_xor(self, other) == Xor(<<Specification(self), Specification(other)>>)
trait_composite(self) == Specification(self)

\* ---- impl SpecificationCompositions: inherent builder methods ----
\* `other` is `impl Specification<T>`, so `other.composite()` is the trait
\* method: the operand is wrapped in Specification(Arc::new(other)) whatever it is.
\* variant: the flattening arm rebuilds the list from the operand alone
node_and_replace(self, other) ==
  LET o == trait_composite(other) IN
  IF self.kind = "And"
  THEN And(IF o.kind = "And" THEN o.specs ELSE <<o>>)
  ELSE And(<<self, o>>)

node_and(self, other) ==
  LET o == trait_composite(other) IN
  IF self.kind = "And"
  THEN And(IF o.kind = "And" THEN self.specs \o o.specs ELSE Append(self.specs, o))
  ELSE And(<<self, o>>)

\* variant: the flattening arm forgets to push the operand
node_or_nopush(self, other) ==
  LET o == trait_composite(other) IN
  IF self.kind = "Or"
  THEN Or(IF o.kind = "Or" THEN self.specs \o o.specs ELSE self.specs)
  ELSE Or(<<self, o>>)

node_or(self, other) ==
  LET o == trait_composite(other) IN
  IF self.kind = "Or"
  THEN Or(IF o.kind = "Or" THEN self.specs \o o.specs ELSE Append(self.specs, o))
  ELSE Or(<<self, o>>)

\* variant: the non-flattening arm pasted from `or`
node_xor_pasted(self, other) ==
  LET o == trait_composite(other) IN
  IF self.kind = "Xor"
  THEN Xor(IF o.kind = "Xor" THEN self.specs \o o.specs ELSE Append(self.specs, o))
  ELSE Or(<<self, o>>)

node_xor(self, other) ==
  LET o == trait_composite(other) IN
  IF self.kind = "Xor"
  THEN Xor(IF o.kind = "Xor" THEN self.specs \o o.specs ELSE Append(self.specs, o))
  ELSE Xor(<<self, o>>)

node_invert(self) == Invert(self)
node_composite(self) == self

\* ---- method resolution: inherent methods win on a SpecificationCompositions ----
call_and(self, other) == IF IsNode(self) THEN node_and(self, other) ELSE trait_and(self, other)
call_or(self, other) == IF IsNode(self) THEN node_or(self, other) ELSE trait_or(self, other)
call_xor(self, other) == IF IsNode(self) THEN node_xor(self, other) ELSE trait_xor(self, other)
call_invert(self) == IF IsNode(self) THEN node_invert(self) ELSE trait_invert(self)
call_composite(self) == IF IsNode(self) THEN node_composite(self) ELSE trait_composite(self)

\* ---- reminder_unsatisfied_by ----
RECURSIVE reminder_unsatisfied_by(_, _)
RECURSIVE unsatisfied(_, _)

\* variant: the early return of the Specification arm taken on the wrong branch
leaf_reminder_flipped(self, candidate) ==
  IF ~is_satisfied_by(self.f, candidate) THEN None ELSE Specification(self.f)

\* the Specification arm
leaf_reminder(self, candidate) ==
  IF is_satisfied_by(self.f, candidate) THEN None ELSE Specification(self.f)

\* the loop of the And / Or / Xor arms
unsatisfied(specifications, candidate) ==
  IF specifications = <<>> THEN <<>>
  ELSE LET specification == Head(specifications)
           rest == unsatisfied(Tail(specifications), candidate)
       IN IF ~is_satisfied_by(specification, candidate)
          THEN LET reminder == reminder_unsatisfied_by(specification, candidate)
               IN IF reminder # None THEN <<reminder>> \o rest ELSE rest
          ELSE rest

\* variant: a single collected reminder is still wrapped
nary_reminder_wrap(kind, list) ==
  IF list = <<>> THEN None
  ELSE [kind |-> kind, specs |-> list]

\* the tail of the And / Or / Xor arms
nary_reminder(kind, list) ==
  IF list = <<>> THEN None
  ELSE IF Len(list) = 1 THEN list[1]
  ELSE [kind |-> kind, specs |-> list]

reminder_unsatisfied_by(self, candidate) ==
  CASE self.kind = "Specification" -> leaf_reminder(self, candidate)
    [] self.kind \in NaryKinds ->
         nary_reminder(self.kind, unsatisfied(self.specs, candidate))
    [] self.kind = "Invert" -> reminder_unsatisfied_by(self.spec, candidate)
    [] self.kind = "True" -> None
    [] self.kind = "False" -> None

\* ---- impl Display for SpecificationCompositions; {:?} of the wrapped rule ----
RECURSIVE debug(_)
RECURSIVE debug_list(_)
RECURSIVE fmt(_)
RECURSIVE fmt_list(_, _, _)

\* #[derive(Debug)] output of a rule or of a node behind the Arc
debug(v) ==
  CASE v.kind = "GreaterThan" -> <<"GreaterThan { value: ", ToString(v.value), " }">>
    [] v.kind = "LessThan" -> <<"LessThan { value: ", ToString(v.value), " }">>
    [] v.kind = "Specification" -> <<"Specification(">> \o debug(v.f) \o <<")">>
    [] v.kind \in NaryKinds -> <<v.kind, "([">> \o debug_list(v.specs) \o <<"])">>
    [] v.kind = "Invert" -> <<"Invert(">> \o debug(v.spec) \o <<")">>
    [] v.kind = "True" -> <<"True">>
    [] v.kind = "False" -> <<"False">>

debug_list(specifications) ==
  IF specifications = <<>> THEN <<>>
  ELSE debug(Head(specifications))
       \o (IF Len(specifications) > 1 THEN <<", ">> ELSE <<>>)
       \o debug_list(Tail(specifications))

connective(kind) ==
  CASE kind = "And" -> " and " [] kind = "Or" -> " or " [] kind = "Xor" -> " xor "

fmt_list(specifications, i, word) ==
  IF i > Len(specifications) THEN <<>>
  ELSE (IF i # 1 THEN <<word>> ELSE <<>>)
       \o fmt(specifications[i]) \o fmt_list(specifications, i + 1, word)

fmt(self) ==
  CASE self.kind = "Specification" -> debug(self.f)
    [] self.kind \in NaryKinds ->
         <<"(">> \o fmt_list(self.specs, 1, connective(self.kind)) \o <<")">>
    [] self.kind = "Invert" -> <<"not ">> \o fmt(self.spec)
    [] self.kind = "True" -> <<"true">>
    [] self.kind = "False" -> <<"false">>

\* ---- state machine: a caller building values in two bindings and querying them ----
\* reg[i]  the value bound to variable i (a bare rule or a node)
\* ops     number of builder calls and queries made so far
\* last    the latest builder call: receiver, operand and result
\* log     the queries made since the latest builder call, in order
NoLast == [op |-> "none"]

Init ==
  /\ reg \in [Regs -> Rules]
  /\ ops = 0
  /\ last = NoLast
  /\ log = <<>>

Build(i, op, a, b, out) ==
  /\ ops < MaxOps
  /\ reg' = [reg EXCEPT ![i] = out]
  /\ ops' = ops + 1
  /\ last' = [op |-> op, a |-> a, b |-> b, out |-> out]
  /\ log' = <<>>

\* reg[i] = reg[i].and(reg[j].clone()), likewise or, xor
DoAnd(i, j) == Build(i, "And", reg[i], reg[j], call_and(reg[i], reg[j]))
DoOr(i, j) == Build(i, "Or", reg[i], reg[j], call_or(reg[i], reg[j]))
DoXor(i, j) == Build(i, "Xor", reg[i], reg[j], call_xor(reg[i], reg[j]))
DoInvert(i) == Build(i, "Invert", reg[i], None, call_invert(reg[i]))
\* reg[i] = SpecificationCompositions::True / ::False
DoConst(i, c) == Build(i, "Const", None, None, c)

\* reg[i] = reg[i].composite(): the first step of a caller that wants a
\* cloneable node; idempotent, so it is not counted in ops
DoComposite(i) ==
  /\ reg[i] # call_composite(reg[i])
  /\ reg' = [reg EXCEPT ![i] = call_composite(reg[i])]
  /\ last' = [op |-> "Composite", a |-> reg[i], b |-> None, out |-> call_composite(reg[i])]
  /\ log' = <<>>
  /\ UNCHANGED ops

QueryResult(i, node, candidate) ==
  [i |-> i, node |-> node, x |-> candidate,
   sat |-> is_satisfied_by(node, candidate),
   rem |-> reminder_unsatisfied_by(node, candidate),
   text |-> fmt(node)]

\* variant: the collected children are moved out of the queried node's own list
QueryDrain(i, candidate) ==
  /\ ops < MaxOps
  /\ IsNode(reg[i])
  /\ log' = Append(log, QueryResult(i, reg[i], candidate))
  /\ ops' = ops + 1
  /\ reg' = [reg EXCEPT ![i] =
              IF reg[i].kind \in NaryKinds
              THEN LET Keep(c) == is_satisfied_by(c, candidate)
                   IN [reg[i] EXCEPT !.specs = SelectSeq(reg[i].specs, Keep)]
              ELSE reg[i]]
  /\ UNCHANGED last

\* the three &self queries on the node bound to i
Query(i, candidate) ==
  /\ ops < MaxOps
  /\ IsNode(reg[i])
  /\ log' = Append(log, QueryResult(i, reg[i], candidate))
  /\ ops' = ops + 1
  /\ UNCHANGED <<reg, last>>

Next ==
  \/ \E i, j \in Regs : DoAnd(i, j)
  \/ \E i, j \in Regs : DoOr(i, j)
  \/ \E i, j \in Regs : DoXor(i, j)
  \/ \E i \in Regs : DoInvert(i)
  \/ \E i \in Regs : DoComposite(i)
  \/ \E i \in Regs, c \in {True, False} : DoConst(i, c)
  \/ \E i \in Regs, x \in Candidates : Query(i, x)

Spec == Init /\ [][Next]_vars

TypeOK == \A i \in Regs : reg[i].kind # "None"

\* ---- properties ----
Entries == {log[k] : k \in 1..Len(log)}

RECURSIVE ArityOK(_)
\* every And / Or / Xor node anywhere in v, also behind an Arc, has two or more children
ArityOK(v) ==
  CASE v.kind = "Specification" -> ArityOK(v.f)
    [] v.kind \in NaryKinds ->
         /\ Len(v.specs) >= 2
         /\ \A k \in 1..Len(v.specs) : ArityOK(v.specs[k])
    [] v.kind = "Invert" -> ArityOK(v.spec)
    [] OTHER -> TRUE

\* C1: a query's reminder is nothing exactly when the queried node is satisfied
C1_Completeness ==
  \A e \in Entries : (e.rem = None) <=> e.sat

\* C2: a reminder returned by a query is itself unsatisfied by the same candidate
C2_Soundness ==
  \A e \in Entries : e.rem # None => ~is_satisfied_by(e.rem, e.x)

C2_Witness ==
  \E e \in Entries : e.rem # None /\ e.rem.kind \in NaryKinds /\ Len(e.rem.specs) >= 2

XorLawAt(a, b, out) ==
  \A x \in Candidates :
    is_satisfied_by(out, x) = (is_satisfied_by(a, x) # is_satisfied_by(b, x))

\* C3 (as stated): a.xor(b) is satisfied exactly when exactly one of a, b is,
\* for receivers a of any kind
C3_XorLaw ==
  last.op = "Xor" => XorLawAt(last.a, last.b, last.out)

\* C3 (amended): a.xor(b) is satisfied exactly when exactly one of a, b is,
\* for every receiver a that is not itself an Xor node (b of any kind)
C3_XorLawAmended ==
  (last.op = "Xor" /\ last.a.kind # "Xor") => XorLawAt(last.a, last.b, last.out)

C3_Witness ==
  /\ last.op = "Xor"
  /\ last.a.kind \in {"And", "Or", "Invert"}
  /\ last.b.kind = "Xor"
  /\ \E x \in Candidates : is_satisfied_by(last.a, x) /\ is_satisfied_by(last.b, x)

\* C4: a.and(b) is satisfied iff a and b both are; a.or(b) iff a or b is,
\* with and without flattening into the receiver's list
C4_AndOrLaws ==
  /\ last.op = "And" =>
       \A x \in Candidates :
         is_satisfied_by(last.out, x)
           = (is_satisfied_by(last.a, x) /\ is_satisfied_by(last.b, x))
  /\ last.op = "Or" =>
       \A x \in Candidates :
         is_satisfied_by(last.out, x)
           = (is_satisfied_by(last.a, x) \/ is_satisfied_by(last.b, x))

C4_Witness ==
  /\ last.op = "And"
  /\ last.a.kind = "And"
  /\ Len(last.out.specs) = 3
  /\ \E x \in Candidates : ~is_satisfied_by(last.a, x) /\ is_satisfied_by(last.b, x)

\* C5: K(a,b) combined with K(c,d) by the matching operation is the single
\* four-child node K(a,b,c,d)
C5_FlattenBoth ==
  (last.op \in NaryKinds /\ last.a.kind = last.op /\ last.b.kind = last.op) =>
    last.out = [kind |-> last.op, specs |-> last.a.specs \o last.b.specs]

\* C6: every And / Or / Xor node in every built value has at least two children;
\* an and/or/xor call creates a two-child node or extends the receiver's list
\* of the same kind by at least one child, keeping the existing children
C6_Arity ==
  /\ \A i \in Regs : ArityOK(reg[i])
  /\ last.op \in NaryKinds =>
       /\ last.out.kind = last.op
       /\ IF last.a.kind = last.op
          THEN /\ Len(last.out.specs) >= Len(last.a.specs) + 1
               /\ SubSeq(last.out.specs, 1, Len(last.a.specs)) = last.a.specs
          ELSE Len(last.out.specs) = 2

C6_Witness ==
  /\ last.op = "Or"
  /\ last.a.kind = "Or"
  /\ Len(last.out.specs) = 3
  /\ \E i \in Regs : reg[i].kind = "Specification"

C9_Narrowing ==
  \A e \in Entries :
    (/\ last.op \in NaryKinds
     /\ e.node = last.out
     /\ last.b.kind \in NaryKinds
     /\ \E k \in 1..Len(last.b.specs) : is_satisfied_by(last.b.specs[k], e.x)
     /\ reminder_unsatisfied_by(last.b, e.x) # None) =>
      LET child == last.out.specs[Len(last.out.specs)]
      IN ~is_satisfied_by(child, e.x) =>
           reminder_unsatisfied_by(child, e.x) = reminder_unsatisfied_by(last.b, e.x)

\* C10: the reminder of Invert(child) is child's reminder, and it is nothing
\* whenever Invert(child) is unsatisfied
C10_InvertReminder ==
  \A e \in Entries :
    e.node.kind = "Invert" =>
      /\ e.rem = reminder_unsatisfied_by(e.node.spec, e.x)
      /\ ~e.sat => e.rem = None
====
